---- MODULE Spec2Model ----
(***************************************************************************)
(* Employee management backend: the four HTTP handlers of controllers.go,  *)
(* the persistence helpers they delegate to, the MongoDB collection they   *)
(* share, and the two program entry points.                                *)
(*                                                                         *)
(* A Go string is a sequence of one-character strings; an ObjectID is a    *)
(* sequence of ObjectIDLen bytes; a BSON document is a function from its   *)
(* keys to their values; the collection is a set of documents.             *)
(***************************************************************************)
EXTENDS Integers, Sequences, FiniteSets, TLC

\* ------------------------------------------------------------------ bounds

\* Number of ObjectIDs the driver can hand out (and clients can name).
NumIds == 2
\* Number of requests the dispatcher runs at the same time in SpecConc.
NumClients == 2

\* ---------------------------------------------------------------- ObjectID

ObjectIDLen == 12
HexLen == 24

NilObjectID == [i \in 1..ObjectIDLen |-> 0]

LowerHex == <<"0","1","2","3","4","5","6","7","8","9","a","b","c","d","e","f">>
UpperHex == <<"0","1","2","3","4","5","6","7","8","9","A","B","C","D","E","F">>

\* The value of every hex digit, lower and upper case.
HexDigits ==
    [c \in {LowerHex[i] : i \in 1..16} \cup {UpperHex[i] : i \in 1..16} |->
        (CHOOSE i \in 1..16 : LowerHex[i] = c \/ UpperHex[i] = c) - 1]

\* hex.Decode's digit value of one character, -1 when it is no hex digit.
fromHexChar(c) == IF c \in DOMAIN HexDigits THEN HexDigits[c] ELSE -1

\* bson.ObjectIDFromHex: exactly HexLen hex digits, two per byte.
ObjectIDFromHex(s) ==
    IF Len(s) # HexLen \/ (\E i \in 1..Len(s) : fromHexChar(s[i]) = -1)
    THEN [ok |-> FALSE, id |-> NilObjectID]
    ELSE [ok |-> TRUE,
          id |-> [i \in 1..ObjectIDLen |->
                    16 * fromHexChar(s[2 * i - 1]) + fromHexChar(s[2 * i])]]

\* ObjectID.Hex / MarshalJSON: the lower-case hex text of an identifier.
Hex(oid) ==
    [i \in 1..HexLen |->
        IF i % 2 = 1 THEN LowerHex[(oid[(i + 1) \div 2] \div 16) + 1]
                     ELSE LowerHex[(oid[i \div 2] % 16) + 1]]

\* The same identifier spelled with upper-case digits, as a client may send it.
UpperHexOf(oid) ==
    [i \in 1..HexLen |->
        IF i % 2 = 1 THEN UpperHex[(oid[(i + 1) \div 2] \div 16) + 1]
                     ELSE UpperHex[(oid[i \div 2] % 16) + 1]]

\* The n-th identifier the driver generates (its counter bytes grow).
OID(n) == [i \in 1..ObjectIDLen |-> IF i = ObjectIDLen THEN 9 + n ELSE 0]

Pool == {OID(n) : n \in 1..NumIds}

\* ---------------------------------------------------------------- Employee

GoFields == <<"Name", "Email", "Phone", "Department">>
BsonKeys == {"_id", "name", "email", "phone", "department"}
BusinessKeys == {"name", "email", "phone", "department"}

\* The struct field behind a bson/json key (models.Employee's tags).
GoField(k) ==
    CASE k = "_id" -> "ID"
      [] k = "name" -> "Name"
      [] k = "email" -> "Email"
      [] k = "phone" -> "Phone"
      [] k = "department" -> "Department"

\* The zero value of the struct field behind a key.
Zero(k) == IF k = "_id" THEN NilObjectID ELSE <<>>

ZeroEmployee ==
    [ID |-> NilObjectID, Name |-> <<>>, Email |-> <<>>, Phone |-> <<>>,
     Department |-> <<>>]

\* ------------------------------------------------------------- validation

\* A non-empty run of characters cut by single dots into non-empty atoms.
DotAtoms(t) ==
    /\ Len(t) > 0
    /\ t[1] # "."
    /\ t[Len(t)] # "."
    /\ \A i \in 1..(Len(t) - 1) : ~(t[i] = "." /\ t[i + 1] = ".")

\* The validator's "email" tag: local@domain, the domain of two labels or more.
IsEmail(s) ==
    LET ats == {i \in 1..Len(s) : s[i] = "@"} IN
    /\ Cardinality(ats) = 1
    /\ LET p == CHOOSE i \in ats : TRUE
           local == SubSeq(s, 1, p - 1)
           domain == SubSeq(s, p + 1, Len(s))
       IN /\ DotAtoms(local)
          /\ DotAtoms(domain)
          /\ \E i \in 1..Len(domain) : domain[i] = "."

\* A validator that forgets the email tag.
FieldTag_RequiredOnly(emp, f) == IF emp[f] = <<>> THEN "required" ELSE ""

\* The first failing tag of a field ("" when the field passes): every business
\* field is `required`, Email is `required,email`.
FieldTag(emp, f) ==
    IF emp[f] = <<>> THEN "required"
    ELSE IF f = "Email" /\ ~IsEmail(emp[f]) THEN "email"
    ELSE ""

\* A validator that stops at the first failing field.
ValidateStruct_FirstOnly(emp) ==
    LET all == [i \in 1..Len(GoFields) |->
                  [field |-> GoFields[i], tag |-> FieldTag(emp, GoFields[i])]]
        bad == SelectSeq(all, LAMBDA e : e.tag # "")
    IN IF bad = <<>> THEN bad ELSE <<bad[1]>>

\* validate.Struct: one FieldError per failing field, in struct order.
ValidateStruct(emp) ==
    LET all == [i \in 1..Len(GoFields) |->
                  [field |-> GoFields[i], tag |-> FieldTag(emp, GoFields[i])]]
    IN SelectSeq(all, LAMBDA e : e.tag # "")

\* formatValidationErrors: one message per FieldError, joined in order.
formatValidationErrors(errs) ==
    [i \in 1..Len(errs) |->
        [field |-> errs[i].field,
         text |-> CASE errs[i].tag = "required" -> "is required"
                    [] errs[i].tag = "email" -> "must be a valid email address"
                    [] OTHER -> "failed validation"]]

\* --------------------------------------------------------------- JSON, BSON

\* A request body that is no JSON at all.
MalformedBody ==
    [wellformed |-> FALSE, hasId |-> FALSE, id |-> <<>>, name |-> <<>>,
     email |-> <<>>, phone |-> <<>>, department |-> <<>>]

NoBody ==
    [wellformed |-> TRUE, hasId |-> FALSE, id |-> <<>>, name |-> <<>>,
     email |-> <<>>, phone |-> <<>>, department |-> <<>>]

\* json.NewDecoder(r.Body).Decode(&employee): an absent key leaves the zero
\* value; an "id" key goes through ObjectID's UnmarshalJSON.
JsonDecode(body) ==
    IF ~body.wellformed THEN [ok |-> FALSE, emp |-> ZeroEmployee]
    ELSE IF body.hasId /\ ~ObjectIDFromHex(body.id).ok
    THEN [ok |-> FALSE, emp |-> ZeroEmployee]
    ELSE [ok |-> TRUE,
          emp |-> [ID |-> IF body.hasId THEN ObjectIDFromHex(body.id).id
                          ELSE NilObjectID,
                   Name |-> body.name, Email |-> body.email,
                   Phone |-> body.phone, Department |-> body.department]]

\* bson marshalling of an Employee: every key is `omitempty`.
BsonMarshal(emp) ==
    LET keys == {k \in BsonKeys : emp[GoField(k)] # Zero(k)}
    IN [k \in keys |-> emp[GoField(k)]]

\* cur.Decode(&employee): a key the document lacks leaves the zero value.
BsonUnmarshal(doc) ==
    [ID |-> IF "_id" \in DOMAIN doc THEN doc["_id"] ELSE NilObjectID,
     Name |-> IF "name" \in DOMAIN doc THEN doc["name"] ELSE <<>>,
     Email |-> IF "email" \in DOMAIN doc THEN doc["email"] ELSE <<>>,
     Phone |-> IF "phone" \in DOMAIN doc THEN doc["phone"] ELSE <<>>,
     Department |-> IF "department" \in DOMAIN doc THEN doc["department"] ELSE <<>>]

\* json encoding of one Employee of the list response.
JsonEmployee(emp) ==
    [id |-> Hex(emp.ID), name |-> emp.Name, email |-> emp.Email,
     phone |-> emp.Phone, department |-> emp.Department]

\* ------------------------------------------------------------ the collection

\* A $set that leaves an email the document already has.
ApplySet_KeepsEmail(doc, set) ==
    [k \in (DOMAIN doc) \cup (DOMAIN set) |->
        IF k \in DOMAIN set /\ ~(k = "email" /\ k \in DOMAIN doc)
        THEN set[k] ELSE doc[k]]

\* $set: the keys of `set` overwrite, every other key of the document stays.
ApplySet(doc, set) ==
    [k \in (DOMAIN doc) \cup (DOMAIN set) |->
        IF k \in DOMAIN set THEN set[k] ELSE doc[k]]

\* An insert that reports success and stores nothing.
InsertOne_Lost(coll, doc, newId) ==
    [err |-> "", coll |-> coll,
     InsertedID |-> IF "_id" \in DOMAIN doc THEN doc["_id"] ELSE newId]

\* collection.InsertOne: a document without _id gets the driver's next
\* ObjectID; the unique index on _id refuses a second document with the same.
InsertOne(coll, doc, newId) ==
    LET full == IF "_id" \in DOMAIN doc THEN doc
                ELSE ApplySet(doc, [k \in {"_id"} |-> newId])
    IN IF \E d \in coll : d["_id"] = full["_id"]
       THEN [err |-> "duplicate key", coll |-> coll, InsertedID |-> NilObjectID]
       ELSE [err |-> "", coll |-> coll \cup {full}, InsertedID |-> full["_id"]]

\* An update with upsert: no match inserts the $set document under the id.
UpdateOne_Upsert(coll, id, set) ==
    LET matched == {d \in coll : d["_id"] = id} IN
    IF matched = {}
    THEN [err |-> "", MatchedCount |-> 0,
          coll |-> coll \cup {ApplySet(set, [k \in {"_id"} |-> id])}]
    ELSE LET d == CHOOSE x \in matched : TRUE
         IN [err |-> "", coll |-> (coll \ {d}) \cup {ApplySet(d, set)},
             MatchedCount |-> 1]

\* An update that lets $set overwrite _id.
UpdateOne_ReplaceId(coll, id, set) ==
    LET matched == {d \in coll : d["_id"] = id} IN
    IF matched = {} THEN [err |-> "", coll |-> coll, MatchedCount |-> 0]
    ELSE LET d == CHOOSE x \in matched : TRUE
         IN [err |-> "", coll |-> (coll \ {d}) \cup {ApplySet(d, set)},
             MatchedCount |-> 1]

\* collection.UpdateOne(filter {_id: id}, {$set: set}): no upsert; no match is
\* no error; a $set that would change _id of the matched document is refused.
UpdateOne(coll, id, set) ==
    LET matched == {d \in coll : d["_id"] = id} IN
    IF matched = {} THEN [err |-> "", coll |-> coll, MatchedCount |-> 0]
    ELSE IF "_id" \in DOMAIN set /\ set["_id"] # id
    THEN [err |-> "immutable field", coll |-> coll, MatchedCount |-> 0]
    ELSE LET d == CHOOSE x \in matched : TRUE
         IN [err |-> "", coll |-> (coll \ {d}) \cup {ApplySet(d, set)},
             MatchedCount |-> 1]

\* A delete whose filter is ignored: it removes every document.
DeleteOne_All(coll, id) ==
    [coll |-> {}, DeletedCount |-> IF coll = {} THEN 0 ELSE 1]

\* collection.DeleteOne(filter {_id: id}).
DeleteOne(coll, id) ==
    LET matched == {d \in coll : d["_id"] = id} IN
    IF matched = {} THEN [coll |-> coll, DeletedCount |-> 0]
    ELSE [coll |-> coll \ {CHOOSE x \in matched : TRUE}, DeletedCount |-> 1]

\* collection.Find(bson.M{}) and the cursor loop: every document, decoded.
Find(coll) == {BsonUnmarshal(d) : d \in coll}

\* ----------------------------------------------------------------- startup

\* ConnectToMongoDB: the three settings, mongo.Connect, Ping.
ConnectToMongoDB(env) ==
    IF env.MONGODB_URI = "" \/ env.MONGODB_DB_NAME = ""
         \/ env.MONGODB_COLLECTION_NAME = ""
    THEN "missing required MongoDB environment variables"
    ELSE IF env.MONGODB_URI = "not-a-uri" THEN "MongoDB connection error"
    ELSE IF ~env.reachable THEN "MongoDB ping error"
    ELSE ""

\* ------------------------------------------------------------------- state

VARIABLES
    store,       \* the documents of the MongoDB collection
    nextOID,     \* how many ObjectIDs the driver has generated
    removed,     \* history: identifiers deleted since the last successful insert
    slots,       \* per request task: where its handler stands, with its input
    last,        \* the most recent response written, with its request
    proc,        \* "start", "serving" or "exited"
    collection,  \* the package variable `collection`: "nil" or "set"
    environ      \* the process environment and the outside world at startup

vars == <<store, nextOID, removed, slots, last, proc, collection, environ>>

\* A request task: pc says which store call it is about to make.
Idle == [pc |-> "idle", id |-> <<>>, emp |-> ZeroEmployee]

NoPrev == [op |-> "", emp |-> ZeroEmployee, oid |-> NilObjectID, before |-> {}]

\* A response record; every handler fills in the fields it writes.
NoResponse ==
    [op |-> "", id |-> <<>>, body |-> NoBody, emp |-> ZeroEmployee,
     status |-> 0, kind |-> "", detail |-> <<>>, message |-> "",
     employees |-> {}, oid |-> NilObjectID, before |-> {}, prev |-> NoPrev,
     rivals |-> {}, rival |-> ZeroEmployee]

\* The identifiers of the stored documents.
StoredIds(coll) == {d["_id"] : d \in coll}

\* Requests accepted for insertion that still wait for a generated identifier.
PendingGen ==
    Cardinality({t \in DOMAIN slots :
                   slots[t].pc = "insert" /\ slots[t].emp.ID = NilObjectID})

\* Task t stands between validation and its store call for an update of the
\* record that task s updates.
Overlap(s, t) ==
    /\ t # s
    /\ slots[t].pc = "update"
    /\ slots[s].pc = "update"
    /\ ObjectIDFromHex(slots[t].id) = ObjectIDFromHex(slots[s].id)

\* History: the payload of the update of the same record that was applied
\* just before, while task s stood between its validation and its store call
\* (the zero Employee when there was none).
RivalOf(s) ==
    IF last.op = "Update" /\ last.status = 200 /\ s \in last.rivals
    THEN last.emp ELSE ZeroEmployee

\* What the previous response was, kept when it was a successful Create.
PrevOf(r) ==
    IF r.op = "Create" /\ r.status = 200
    THEN [op |-> r.op, emp |-> r.emp, oid |-> r.oid, before |-> r.before]
    ELSE NoPrev

\* ----------------------------------------------------------------- handlers

\* GetAllEmployees, up to its call of getAllEmployees.
GetAllEmployees(s) ==
    /\ proc = "serving"
    /\ slots[s].pc = "idle"
    /\ slots' = [slots EXCEPT ![s] = [Idle EXCEPT !.pc = "find"]]
    /\ UNCHANGED <<store, nextOID, removed, last, proc, collection, environ>>

\* CreateEmployee, up to its call of insertOneEmployee: decode, validate.
\* (A payload that needs a generated identifier is taken only while the
\* driver has one of its NumIds identifiers left.)
CreateEmployee(s, body) ==
    /\ proc = "serving"
    /\ slots[s].pc = "idle"
    /\ LET dec == JsonDecode(body)
           errs == ValidateStruct(dec.emp)
       IN IF ~dec.ok
          THEN /\ last' = [NoResponse EXCEPT !.op = "Create", !.body = body,
                             !.status = 400, !.kind = "Invalid request payload"]
               /\ UNCHANGED slots
          ELSE IF Len(errs) > 0
          THEN /\ last' = [NoResponse EXCEPT !.op = "Create", !.body = body,
                             !.emp = dec.emp, !.status = 400,
                             !.kind = "validation",
                             !.detail = formatValidationErrors(errs)]
               /\ UNCHANGED slots
          ELSE /\ dec.emp.ID = NilObjectID => nextOID + PendingGen < NumIds
               /\ slots' = [slots EXCEPT ![s] =
                              [Idle EXCEPT !.pc = "insert", !.emp = dec.emp]]
               /\ UNCHANGED last
    /\ UNCHANGED <<store, nextOID, removed, proc, collection, environ>>

\* UpdateEmployee, up to its call of updateOneEmployee: decode, validate.
UpdateEmployee(s, employeeID, body) ==
    /\ proc = "serving"
    /\ slots[s].pc = "idle"
    /\ LET dec == JsonDecode(body)
           errs == ValidateStruct(dec.emp)
       IN IF ~dec.ok
          THEN /\ last' = [NoResponse EXCEPT !.op = "Update", !.id = employeeID,
                             !.body = body, !.status = 400,
                             !.kind = "Invalid request payload"]
               /\ UNCHANGED slots
          ELSE IF Len(errs) > 0
          THEN /\ last' = [NoResponse EXCEPT !.op = "Update", !.id = employeeID,
                             !.body = body, !.emp = dec.emp, !.status = 400,
                             !.kind = "validation",
                             !.detail = formatValidationErrors(errs)]
               /\ UNCHANGED slots
          ELSE /\ slots' = [slots EXCEPT ![s] =
                              [Idle EXCEPT !.pc = "update", !.id = employeeID,
                                           !.emp = dec.emp]]
               /\ UNCHANGED last
    /\ UNCHANGED <<store, nextOID, removed, proc, collection, environ>>

\* DeleteEmployee, up to its call of deleteOneEmployee.
DeleteEmployee(s, employeeID) ==
    /\ proc = "serving"
    /\ slots[s].pc = "idle"
    /\ slots' = [slots EXCEPT ![s] = [Idle EXCEPT !.pc = "delete",
                                                  !.id = employeeID]]
    /\ UNCHANGED <<store, nextOID, removed, last, proc, collection, environ>>

\* A method call on the nil collection panics; net/http recovers the panic and
\* drops the connection: the client gets no response.
Panicked(op, s) ==
    [NoResponse EXCEPT !.op = op, !.id = slots[s].id, !.emp = slots[s].emp,
                       !.kind = "panic"]

\* getAllEmployees and the rest of GetAllEmployees: the response.
\* In this and the next three actions `up` says whether the store answers the
\* call; when it does not, the driver returns an error.
getAllEmployees(s) ==
    /\ slots[s].pc = "find"
    /\ slots' = [slots EXCEPT ![s] = Idle]
    /\ \E up \in BOOLEAN :
         last' = IF collection = "nil" THEN Panicked("List", s)
                 ELSE IF ~up
                 THEN [NoResponse EXCEPT !.op = "List", !.status = 500,
                         !.kind = "Failed to retrieve employees"]
                 ELSE [NoResponse EXCEPT !.op = "List", !.status = 200,
                         !.employees = {JsonEmployee(e) : e \in Find(store)},
                         !.prev = PrevOf(last)]
    /\ UNCHANGED <<store, nextOID, removed, proc, collection, environ>>

\* insertOneEmployee and the rest of CreateEmployee: the response.
insertOneEmployee(s) ==
    /\ slots[s].pc = "insert"
    /\ slots' = [slots EXCEPT ![s] = Idle]
    /\ \E up \in BOOLEAN :
         LET employee == slots[s].emp
             doc == BsonMarshal(employee)
             r == InsertOne(store, doc, OID(nextOID + 1))
             done == [NoResponse EXCEPT !.op = "Create", !.emp = employee]
         IN IF collection = "nil"
            THEN /\ last' = Panicked("Create", s)
                 /\ UNCHANGED <<store, nextOID, removed>>
            ELSE IF ~up
            THEN /\ last' = [done EXCEPT !.status = 500,
                               !.kind = "Failed to insert employee",
                               !.detail = <<"store unavailable">>]
                 /\ UNCHANGED <<store, nextOID, removed>>
            ELSE /\ store' = r.coll
                 /\ nextOID' = IF "_id" \in DOMAIN doc THEN nextOID
                               ELSE nextOID + 1
                 /\ removed' = IF r.err = "" THEN {} ELSE removed
                 /\ last' = IF r.err = ""
                            THEN [done EXCEPT !.status = 200,
                                    !.message = "Employee created successfully",
                                    !.oid = r.InsertedID,
                                    !.before = StoredIds(store)]
                            ELSE [done EXCEPT !.status = 500,
                                    !.kind = "Failed to insert employee",
                                    !.detail = <<r.err>>]
    /\ UNCHANGED <<proc, collection, environ>>

\* updateOneEmployee and the rest of UpdateEmployee: the response.
updateOneEmployee(s) ==
    /\ slots[s].pc = "update"
    /\ slots' = [slots EXCEPT ![s] = Idle]
    /\ \E up \in BOOLEAN :
         LET employee == slots[s].emp
             parsed == ObjectIDFromHex(slots[s].id)
             r == UpdateOne(store, parsed.id, BsonMarshal(employee))
             done == [NoResponse EXCEPT !.op = "Update", !.id = slots[s].id,
                        !.emp = employee]
         IN IF ~parsed.ok
            THEN /\ last' = [done EXCEPT !.status = 500,
                               !.kind = "Failed to update employee",
                               !.detail = <<"invalid employee ID format">>]
                 /\ UNCHANGED store
            ELSE IF collection = "nil"
            THEN /\ last' = Panicked("Update", s)
                 /\ UNCHANGED store
            ELSE IF ~up
            THEN /\ last' = [done EXCEPT !.status = 500,
                               !.kind = "Failed to update employee",
                               !.detail = <<"store unavailable">>]
                 /\ UNCHANGED store
            ELSE /\ store' = r.coll
                 /\ last' = IF r.err = ""
                            THEN [done EXCEPT !.status = 200,
                                    !.message = "Employee updated successfully",
                                    !.oid = parsed.id,
                                    !.rival = RivalOf(s),
                                    !.rivals =
                                       IF r.MatchedCount = 0 THEN {}
                                       ELSE {t \in DOMAIN slots : Overlap(s, t)}]
                            ELSE [done EXCEPT !.status = 500,
                                    !.kind = "Failed to update employee",
                                    !.detail = <<r.err>>]
    /\ UNCHANGED <<nextOID, removed, proc, collection, environ>>

\* deleteOneEmployee and the rest of DeleteEmployee: the response.
deleteOneEmployee(s) ==
    /\ slots[s].pc = "delete"
    /\ slots' = [slots EXCEPT ![s] = Idle]
    /\ \E up \in BOOLEAN :
         LET parsed == ObjectIDFromHex(slots[s].id)
             r == DeleteOne(store, parsed.id)
             done == [NoResponse EXCEPT !.op = "Delete", !.id = slots[s].id]
         IN IF ~parsed.ok
            THEN /\ last' = [done EXCEPT !.status = 500,
                               !.kind = "Failed to delete employee",
                               !.detail = <<"invalid employee ID format">>]
                 /\ UNCHANGED <<store, removed>>
            ELSE IF collection = "nil"
            THEN /\ last' = Panicked("Delete", s)
                 /\ UNCHANGED <<store, removed>>
            ELSE IF ~up
            THEN /\ last' = [done EXCEPT !.status = 500,
                               !.kind = "Failed to delete employee",
                               !.detail = <<"store unavailable">>]
                 /\ UNCHANGED <<store, removed>>
            ELSE IF r.DeletedCount = 0
            THEN /\ last' = [done EXCEPT !.status = 500,
                               !.kind = "Failed to delete employee",
                               !.detail = <<"no employee found with ID">>]
                 /\ UNCHANGED <<store, removed>>
            ELSE /\ store' = r.coll
                 /\ removed' = removed \cup {parsed.id}
                 /\ last' = [done EXCEPT !.status = 200,
                               !.message = "Employee deleted successfully",
                               !.oid = parsed.id]
    /\ UNCHANGED <<nextOID, proc, collection, environ>>

\* ------------------------------------------------------------ entry points

\* main of the entry point that connects first: ConnectToMongoDB, then
\* SetupRouter and ListenAndServe; log.Fatal ends the process on either error.
mainConnect ==
    /\ proc = "start"
    /\ IF ConnectToMongoDB(environ) # ""
       THEN proc' = "exited" /\ UNCHANGED collection
       ELSE /\ collection' = "set"
            /\ proc' = IF environ.portFree THEN "serving" ELSE "exited"
    /\ UNCHANGED <<store, nextOID, removed, slots, last, environ>>

\* main of the entry point that only sets up the router and serves.
mainServe ==
    /\ proc = "start"
    /\ proc' = IF environ.portFree THEN "serving" ELSE "exited"
    /\ UNCHANGED <<store, nextOID, removed, slots, last, collection, environ>>

\* ------------------------------------------------------------------ inputs

Ann == <<"A", "n", "n">>
Bob == <<"B", "o", "b">>
AnnMail == <<"a", "@", "x", ".", "c">>
BobMail == <<"b", "@", "x", ".", "c">>
NotAnEmail == <<"n", "o", "-", "a", "t">>
PhoneNo == <<"1", "2", "3">>
Eng == <<"E", "n", "g">>
Xyz == <<"x", "y", "z">>

MkBody(n, e, p, d) ==
    [wellformed |-> TRUE, hasId |-> FALSE, id |-> <<>>, name |-> n,
     email |-> e, phone |-> p, department |-> d]

WithId(body, id) == [body EXCEPT !.hasId = TRUE, !.id = id]

\* Every combination of present and absent business fields, some of them with
\* an "id" key, and a body that is no JSON.
Bodies ==
    LET plain == {MkBody(n, e, p, d) :
                    n \in {<<>>, Ann, Bob}, e \in {<<>>, NotAnEmail, AnnMail},
                    p \in {<<>>, PhoneNo}, d \in {<<>>, Eng}}
        full == {MkBody(n, AnnMail, PhoneNo, Eng) : n \in {Ann, Bob}}
    IN plain
       \cup {WithId(b, Hex(OID(1))) : b \in full}
       \cup {WithId(MkBody(Ann, AnnMail, PhoneNo, Eng), Xyz),
             WithId(MkBody(Ann, <<>>, <<>>, Eng), Xyz),
             MalformedBody}

\* The bodies sent with an update: every complete payload, with and without
\* an "id" key, and one body for each way of being refused.
UpdateBodies ==
    LET full == {MkBody(n, AnnMail, PhoneNo, Eng) : n \in {Ann, Bob}}
    IN full
       \cup {WithId(b, Hex(OID(1))) : b \in full}
       \cup {WithId(MkBody(Ann, AnnMail, PhoneNo, Eng), Xyz),
             MkBody(Ann, NotAnEmail, PhoneNo, Eng),
             MkBody(<<>>, AnnMail, <<>>, Eng),
             MalformedBody}

PathIDs ==
    {Hex(o) : o \in Pool} \cup {UpperHexOf(OID(1)), Xyz}

\* The inputs of the concurrent runs: two complete payloads that differ in two
\* fields, and two payloads validation must refuse.
ConcBodies ==
    {MkBody(Ann, AnnMail, PhoneNo, Eng), MkBody(Bob, BobMail, PhoneNo, Eng),
     MkBody(Ann, NotAnEmail, PhoneNo, Eng), MkBody(Bob, BobMail, PhoneNo, <<>>)}

ConcPathIDs == {Hex(OID(1))}

BootPathIDs == {Hex(OID(1)), Xyz}

BootBodies == {MkBody(Ann, AnnMail, PhoneNo, Eng), MkBody(Ann, <<>>, PhoneNo, Eng)}

Environs ==
    [MONGODB_URI : {"", "not-a-uri", "mongodb://db"},
     MONGODB_DB_NAME : {"", "hr"},
     MONGODB_COLLECTION_NAME : {"", "employees"},
     reachable : BOOLEAN, portFree : BOOLEAN]

\* ---------------------------------------------------------- specifications

\* The service after the connecting entry point has started it.
Init ==
    /\ store = {}
    /\ nextOID = 0
    /\ removed = {}
    /\ slots = [s \in {1} |-> Idle]
    /\ last = NoResponse
    /\ proc = "serving"
    /\ collection = "set"
    /\ environ = [MONGODB_URI |-> "mongodb://db", MONGODB_DB_NAME |-> "hr",
                  MONGODB_COLLECTION_NAME |-> "employees",
                  reachable |-> TRUE, portFree |-> TRUE]

\* One request at a time, every input.
Next ==
    \E s \in {1} :
        \/ GetAllEmployees(s)
        \/ \E b \in Bodies : CreateEmployee(s, b)
        \/ \E id \in PathIDs, b \in UpdateBodies : UpdateEmployee(s, id, b)
        \/ \E id \in PathIDs : DeleteEmployee(s, id)
        \/ getAllEmployees(s)
        \/ insertOneEmployee(s)
        \/ updateOneEmployee(s)
        \/ deleteOneEmployee(s)

Spec == Init /\ [][Next]_vars

\* The same service with NumClients request tasks running concurrently.
InitConc ==
    /\ store = {}
    /\ nextOID = 0
    /\ removed = {}
    /\ slots = [s \in 1..NumClients |-> Idle]
    /\ last = NoResponse
    /\ proc = "serving"
    /\ collection = "set"
    /\ environ = [MONGODB_URI |-> "mongodb://db", MONGODB_DB_NAME |-> "hr",
                  MONGODB_COLLECTION_NAME |-> "employees",
                  reachable |-> TRUE, portFree |-> TRUE]

NextConc ==
    \E s \in 1..NumClients :
        \/ GetAllEmployees(s)
        \/ \E b \in ConcBodies : CreateEmployee(s, b)
        \/ \E id \in ConcPathIDs, b \in ConcBodies : UpdateEmployee(s, id, b)
        \/ \E id \in ConcPathIDs : DeleteEmployee(s, id)
        \/ getAllEmployees(s)
        \/ insertOneEmployee(s)
        \/ updateOneEmployee(s)
        \/ deleteOneEmployee(s)

SpecConc == InitConc /\ [][NextConc]_vars

\* The process from its start, under either entry point and any environment.
InitBoot ==
    /\ store = {}
    /\ nextOID = 0
    /\ removed = {}
    /\ slots = [s \in {1} |-> Idle]
    /\ last = NoResponse
    /\ proc = "start"
    /\ collection = "nil"
    /\ environ \in Environs

NextBoot ==
    \/ mainConnect
    \/ mainServe
    \/ \E s \in {1} :
        \/ GetAllEmployees(s)
        \/ \E b \in BootBodies : CreateEmployee(s, b)
        \/ \E id \in BootPathIDs, b \in BootBodies : UpdateEmployee(s, id, b)
        \/ \E id \in BootPathIDs : DeleteEmployee(s, id)
        \/ getAllEmployees(s)
        \/ insertOneEmployee(s)
        \/ updateOneEmployee(s)
        \/ deleteOneEmployee(s)

SpecBoot == InitBoot /\ [][NextBoot]_vars

\* ------------------------------------------------------------- properties

\* The step in which task s makes the store call pc names and responds.
StoreStep(s, pc) == slots[s].pc = pc /\ slots'[s].pc = "idle"

\* The step in which handler op refuses its request before any store call.
Refused(op) == slots' = slots /\ last' # last /\ last'.op = op

\* The store did not answer the call the last response reports on.
Unavailable(r) == r.detail = <<"store unavailable">>

\* The business fields of a listed employee are those of employee e.
SameBusiness(r, e) ==
    /\ r.name = e.Name
    /\ r.email = e.Email
    /\ r.phone = e.Phone
    /\ r.department = e.Department

\* Document d holds exactly the four business fields of employee e.
HoldsPayload(d, e) ==
    \A k \in BusinessKeys : k \in DOMAIN d /\ d[k] = e[GoField(k)]

\* The business keys a body lacks or gives as the empty string.
Missing(body) == {k \in BusinessKeys : body[k] = <<>>}

\* C1 as stated: a List right after a successful Create returns exactly one
\* record with the payload's four business fields, and that record's
\* identifier is non-empty and was in no record before the Create.
C1_ExactlyOneMatching ==
    (last.op = "List" /\ last.status = 200 /\ last.prev.op = "Create") =>
        LET match == {r \in last.employees : SameBusiness(r, last.prev.emp)}
        IN /\ Cardinality(match) = 1
           /\ \A r \in match :
                /\ r.id # <<>>
                /\ ObjectIDFromHex(r.id).id \notin last.prev.before

\* C1 as amended: a List right after a successful Create returns exactly one
\* record whose identifier no record had before the Create; that identifier is
\* non-empty and the record has the payload's four business fields. (Other
\* records with the same business fields may be listed too.)
C1_CreateThenList ==
    (last.op = "List" /\ last.status = 200 /\ last.prev.op = "Create") =>
        LET new == {r \in last.employees :
                      ~ObjectIDFromHex(r.id).ok
                      \/ ObjectIDFromHex(r.id).id \notin last.prev.before}
        IN /\ Cardinality(new) = 1
           /\ \A r \in new :
                /\ r.id # <<>>
                /\ ObjectIDFromHex(r.id).ok
                /\ SameBusiness(r, last.prev.emp)
           /\ Cardinality(last.employees) = Cardinality(last.prev.before) + 1

\* A List right after a successful Create into a store that held a record.
C1_Witness ==
    /\ last.op = "List"
    /\ last.status = 200
    /\ last.prev.op = "Create"
    /\ last.prev.before # {}

\* C2: the identifier a Create stores its record under is never the one the
\* request carried, it was in no record before, and stored identifiers are
\* pairwise distinct.
C2_IdNeverFromRequest ==
    /\ (last.op = "Create" /\ last.status = 200) =>
          /\ last.oid # last.emp.ID
          /\ last.oid # NilObjectID
          /\ last.oid \notin last.before
    /\ \A d1, d2 \in store : d1["_id"] = d2["_id"] => d1 = d2

C4_BadIdIsClientError ==
    [][((Refused("Update") \/ \E s \in DOMAIN slots : StoreStep(s, "update"))
        /\ ~ObjectIDFromHex(last'.id).ok)
       => (last'.status = 400 /\ store' = store)]_vars

\* C5: a Delete of a well-formed identifier no record has answers 500 ("not
\* found" when the store answered) and changes nothing; a Delete of a stored
\* identifier, the store answering, answers 200 and removes that record and
\* no other; a later List, no Create in between, shows no record with it.
C5_Delete ==
    [][/\ \A s \in DOMAIN slots :
            (StoreStep(s, "delete") /\ ObjectIDFromHex(slots[s].id).ok) =>
                LET id == ObjectIDFromHex(slots[s].id).id IN
                IF id \notin StoredIds(store)
                THEN /\ last'.status = 500
                     /\ store' = store
                     /\ ~Unavailable(last') =>
                            last'.detail = <<"no employee found with ID">>
                ELSE IF Unavailable(last')
                THEN last'.status = 500 /\ store' = store
                ELSE /\ last'.status = 200
                     /\ store' = {d \in store : d["_id"] # id}
                     /\ Cardinality(store') = Cardinality(store) - 1
       /\ \A s \in DOMAIN slots :
            (StoreStep(s, "find") /\ last'.status = 200) =>
                \A r \in last'.employees :
                    ObjectIDFromHex(r.id).id \notin removed]_vars

\* A List after a Delete that left another record in the store.
C5_Witness ==
    /\ last.op = "List"
    /\ last.status = 200
    /\ removed # {}
    /\ last.employees # {}

\* C6: an Update with a valid payload and a well-formed identifier no record
\* has, the store answering, answers 200 "Employee updated successfully" and
\* the stored records are the same before and after.
C6_UpdateOfMissingRecord ==
    [][\A s \in DOMAIN slots :
         (/\ StoreStep(s, "update")
          /\ ObjectIDFromHex(slots[s].id).ok
          /\ ObjectIDFromHex(slots[s].id).id \notin StoredIds(store))
         => /\ store' = store
            /\ ~Unavailable(last') =>
                  /\ last'.status = 200
                  /\ last'.message = "Employee updated successfully"]_vars

\* An Update of a record the non-empty store does not hold has succeeded.
C6_Witness ==
    /\ last.op = "Update"
    /\ last.status = 200
    /\ store # {}
    /\ last.oid \notin StoredIds(store)

\* C7: a successful Update of a stored record leaves it holding the payload's
\* four business fields under its old identifier and leaves every other
\* record as it was; no Update, refused, failed or successful, changes the
\* identifiers of the stored records.
C7_UpdateReplacesFields ==
    [][/\ \A s \in DOMAIN slots :
            StoreStep(s, "update") =>
                LET id == ObjectIDFromHex(slots[s].id).id IN
                /\ StoredIds(store') = StoredIds(store)
                /\ Cardinality(store') = Cardinality(store)
                /\ {d \in store' : d["_id"] # id} = {d \in store : d["_id"] # id}
                /\ (last'.status = 200 /\ id \in StoredIds(store)) =>
                      \A d \in store' :
                          d["_id"] = id => HoldsPayload(d, slots[s].emp)
       /\ Refused("Update") => store' = store]_vars

\* A successful Update of one of two stored records.
C7_Witness ==
    /\ last.op = "Update"
    /\ last.status = 200
    /\ Cardinality(store) = 2
    /\ \E d \in store : d["_id"] = last.oid /\ HoldsPayload(d, last.emp)
    /\ \E d \in store : d["_id"] # last.oid /\ ~HoldsPayload(d, last.emp)

\* C8: every stored record has the four business fields present and
\* non-empty and an email of valid syntax, and every task about to insert or
\* update carries a payload that passed validation.
C8_StoredRecordsValid ==
    /\ \A d \in store :
         /\ \A k \in BusinessKeys : k \in DOMAIN d /\ d[k] # <<>>
         /\ IsEmail(d["email"])
    /\ \A s \in DOMAIN slots :
         slots[s].pc \in {"insert", "update"} =>
             /\ \A f \in {"Name", "Email", "Phone", "Department"} :
                  slots[s].emp[f] # <<>>
             /\ IsEmail(slots[s].emp.Email)

\* Two records are stored, one of them updated, while refused payloads and
\* concurrent tasks were around.
C8_Witness ==
    /\ Cardinality(store) = 2
    /\ last.op = "Update"
    /\ last.status = 200
    /\ \E s \in DOMAIN slots : slots[s].pc = "update"

\* C9: when Updates of one stored record run concurrently, each store call,
\* the store answering, succeeds and leaves the record holding the complete
\* payload of the Update applied: never fields of two Updates.
C9_LastWriteWins ==
    [][\A s \in DOMAIN slots :
         (/\ StoreStep(s, "update")
          /\ ObjectIDFromHex(slots[s].id).ok
          /\ ObjectIDFromHex(slots[s].id).id \in StoredIds(store)
          /\ ~Unavailable(last'))
         => /\ last'.status = 200
            /\ \A d \in store' :
                 d["_id"] = ObjectIDFromHex(slots[s].id).id =>
                     /\ HoldsPayload(d, slots[s].emp)
                     /\ (RivalOf(s) # ZeroEmployee
                         /\ RivalOf(s) # slots[s].emp)
                        => ~HoldsPayload(d, RivalOf(s))]_vars

\* Two Updates of one record with different payloads ran concurrently; both
\* were applied, and the record holds the payload of the second.
C9_Witness ==
    /\ last.op = "Update"
    /\ last.status = 200
    /\ last.rival # ZeroEmployee
    /\ last.rival.Name # last.emp.Name
    /\ last.rival.Email # last.emp.Email
    /\ \E d \in store : d["_id"] = last.oid /\ HoldsPayload(d, last.emp)

\* C10: the process serves, and a handler runs, only with the collection set
\* by a successful ConnectToMongoDB.
C10_ServesOnlyWhenConnected ==
    /\ proc = "serving" => (collection = "set" /\ ConnectToMongoDB(environ) = "")
    /\ \A s \in DOMAIN slots : slots[s].pc # "idle" => collection = "set"

====
